---- MODULE Spec2Model ----
(***************************************************************************)
(* Model of the image-description client: the ImageUploader's data-URL     *)
(* codec (fileToImageInfo / handleFileChange), the App's state and its     *)
(* handlers (handleImageUpload, handleGenerateDescription), and the Ollama *)
(* service call (generateDescriptionFromImage).                            *)
(*                                                                         *)
(* A JavaScript string is a sequence of atoms; an atom is a run of         *)
(* characters the code never looks into ("data", "AAAA") or one of the     *)
(* characters it does look for (":", ";", ",", whitespace).  A JavaScript  *)
(* value is a tagged record.                                               *)
(***************************************************************************)
EXTENDS Integers, Sequences, FiniteSets, TLC

----------------------------------------------------------------------------
(* Bounds of the model. *)

\* longest file-read result enumerated atom by atom
MaxLen == 5
\* longest MIME type / payload of the well-formed data URLs enumerated
MaxMime == 3
MaxData == 2
\* longest `response` text a server body carries
MaxText == 3
\* FileReader reads that may be pending at once
MaxReads == 1
\* service calls that may be outstanding when the handler is invoked directly
MaxCalls == 1

----------------------------------------------------------------------------
(* JavaScript values. *)

Undefined == [t |-> "undefined"]
JNull == [t |-> "null"]
JStr(s) == [t |-> "string", s |-> s]
JNum(n) == [t |-> "number", n |-> n]
\* an object read from JSON; a field the object lacks reads as undefined
JObj(e, r) == [t |-> "object", error |-> e, response |-> r]

\* all sequences over S of length at most n
RECURSIVE SeqsUpTo(_, _)
SeqsUpTo(S, n) ==
  IF n = 0 THEN {<<>>}
  ELSE LET shorter == SeqsUpTo(S, n - 1)
       IN shorter \cup {Append(s, a) : s \in shorter, a \in S}

----------------------------------------------------------------------------
(* Image codec: fileToImageInfo. *)

\* the characters `.` does not match in a JavaScript regular expression
LineTerminators == {"\n", "\r"}

\* index of the first element of s at or after position i that is in S, 0 if none
RECURSIVE IndexFrom(_, _, _)
IndexFrom(s, i, S) ==
  IF i > Len(s) THEN 0
  ELSE IF s[i] \in S THEN i
  ELSE IndexFrom(s, i + 1, S)

\* dataUrl.split(','): the pieces between the commas, all of them
RECURSIVE SplitComma(_)
SplitComma(s) ==
  LET c == IndexFrom(s, 1, {","})
  IN IF c = 0 THEN <<s>>
     ELSE <<SubSeq(s, 1, c - 1)>> \o SplitComma(SubSeq(s, c + 1, Len(s)))

\* header.match(/:(.*?);/) tried with the ":" at position i or later: the
\* leftmost ":" followed by a ";" with no line terminator in between, the
\* group being the shortest such run
RECURSIVE MatchFrom(_, _)
MatchFrom(h, i) ==
  LET c == IndexFrom(h, i, {":"})
  IN IF c = 0 THEN [matched |-> FALSE, group |-> <<>>]
     ELSE LET e == IndexFrom(h, c + 1, {";"} \cup LineTerminators)
          IN IF e # 0 /\ h[e] = ";"
             THEN [matched |-> TRUE, group |-> SubSeq(h, c + 1, e - 1)]
             ELSE MatchFrom(h, c + 1)

\* a pattern written without its leading colon, /(.*?);/
MimeTypeMatchNoColon(header) ==
  LET e == IndexFrom(header, 1, {";"} \cup LineTerminators)
  IN IF e # 0 /\ header[e] = ";"
     THEN [matched |-> TRUE, group |-> SubSeq(header, 1, e - 1)]
     ELSE [matched |-> FALSE, group |-> <<>>]

MimeTypeMatch(header) == MatchFrom(header, 1)

\* const [header, base64Data] = dataUrl.split(','): the second piece, or
\* undefined when there is none
SecondPiece(pieces) ==
  IF Len(pieces) >= 2 THEN JStr(pieces[2]) ELSE Undefined

Rejected(msg) == [ok |-> FALSE, error |-> msg]
Resolved(v) == [ok |-> TRUE, value |-> v]

\* the promise fileToImageInfo returns, settled by the read event `read`:
\* onload with a result (a string or not), or onerror
fileToImageInfo(read) ==
  IF read.t = "error" THEN Rejected(<<"ProgressEvent">>)
  ELSE IF read.t = "string"
  THEN LET dataUrl == read.s
           pieces == SplitComma(dataUrl)
           header == pieces[1]
           base64Data == SecondPiece(pieces)
           mimeTypeMatch == MimeTypeMatch(header)
       IN IF ~mimeTypeMatch.matched \/ mimeTypeMatch.group = <<>>
          THEN Rejected(<<"Could not determine image MIME type.">>)
          ELSE Resolved([t |-> "image",
                         base64Data |-> base64Data,
                         mimeType |-> JStr(mimeTypeMatch.group),
                         previewUrl |-> JStr(dataUrl)])
  ELSE Rejected(<<"Failed to read file as a data URL.">>)

----------------------------------------------------------------------------
(* Description client: generateDescriptionFromImage. *)

OLLAMA_API_URL == "http://localhost:11434/api/generate"
OLLAMA_MODEL == "llava"
Prompt == "Describe this image in detail. What objects are present? What is the setting? What actions are taking place? What is the overall mood or feeling of the image?"

DigitChars == <<"0", "1", "2", "3", "4", "5", "6", "7", "8", "9">>

\* the decimal digits of a natural number, as a string
RECURSIVE Digits(_)
Digits(n) ==
  IF n < 10 THEN <<DigitChars[n + 1]>>
  ELSE Append(Digits(n \div 10), DigitChars[(n % 10) + 1])

\* what a template literal `${v}` puts into the string
ToStr(v) ==
  CASE v.t = "undefined" -> <<"undefined">>
    [] v.t = "null" -> <<"null">>
    [] v.t = "string" -> v.s
    [] v.t = "number" -> Digits(v.n)
    [] OTHER -> <<"[object Object]">>

\* the value of `if (v)`
Truthy(v) ==
  CASE v.t = "undefined" -> FALSE
    [] v.t = "null" -> FALSE
    [] v.t = "string" -> v.s # <<>>
    [] v.t = "number" -> v.n # 0
    [] OTHER -> TRUE

\* what String.prototype.trim removes from both ends
WhiteSpace == {" ", "\t", "\n", "\r"}

RECURSIVE TrimStart(_)
TrimStart(s) ==
  IF s # <<>> /\ Head(s) \in WhiteSpace THEN TrimStart(Tail(s)) ELSE s

RECURSIVE TrimEnd(_)
TrimEnd(s) ==
  IF s # <<>> /\ s[Len(s)] \in WhiteSpace
  THEN TrimEnd(SubSeq(s, 1, Len(s) - 1))
  ELSE s

\* trimStart written for trim
TrimLeadingOnly(s) == TrimStart(s)

Trim(s) == TrimEnd(TrimStart(s))

\* JSON.stringify of an array element: undefined is written as null
JsonElement(v) == IF v.t = "undefined" THEN JNull ELSE v

\* the whole data URL sent in place of the payload
RequestBodyWithDataUrl(imageInfo) ==
  [model |-> OLLAMA_MODEL,
   prompt |-> Prompt,
   images |-> <<JsonElement(imageInfo.previewUrl)>>,
   stream |-> FALSE]

\* the body of the request, as the server parses it
RequestBody(imageInfo) ==
  [model |-> OLLAMA_MODEL,
   prompt |-> Prompt,
   images |-> <<JsonElement(imageInfo.base64Data)>>,
   stream |-> FALSE]

\* the fetch call
Request(imageInfo) ==
  [url |-> OLLAMA_API_URL,
   method |-> "POST",
   contentType |-> "application/json",
   body |-> RequestBody(imageInfo)]

\* a thrown value
Thrown(type, message) == [type |-> type, message |-> message]
Throws(e) == [returned |-> FALSE, thrown |-> e, value |-> <<>>]
Returns(v) == [returned |-> TRUE, thrown |-> Thrown("none", <<>>), value |-> v]

\* a response body that is not JSON
NotJson == [t |-> "notjson"]

\* response.json()
ResponseJson(body) ==
  IF body.t = "notjson"
  THEN Rejected(Thrown("SyntaxError", <<"Unexpected token < in JSON at position 0">>))
  ELSE Resolved(body)

\* response.ok
ResponseOk(status) == status >= 200 /\ status <= 299

\* reading a property of null or undefined throws
CanReadProps(v) == v.t \notin {"null", "undefined"}

\* v.error and v.response
PropError(v) == IF v.t = "object" THEN v.error ELSE Undefined
PropResponse(v) == IF v.t = "object" THEN v.response ELSE Undefined

ServerMessage(status, errorText) ==
  <<"Ollama API request failed with status ">> \o Digits(status)
    \o <<". Message: ">> \o errorText
    \o <<". Make sure Ollama is running and the '", OLLAMA_MODEL,
         "' model is installed.">>

EmptyMessage == <<"The Ollama API returned an empty description.">>

RemediationCommand == <<"OLLAMA_ORIGINS='*' ollama serve">>

ConnectivityMessage ==
  <<"Could not connect to the Ollama server. \n1. Is it running? \n2. Are you getting a CORS error? If so, you must restart the Ollama server with permissions for web apps. Try running this command in your terminal: \n ">>
    \o RemediationCommand

UnexpectedMessage ==
  <<"An unexpected error occurred while communicating with the Ollama API.">>

\* the `if (!response.ok)` branch
NotOkBranch(status, body) ==
  LET parsed == ResponseJson(body)
      errorBody == IF parsed.ok THEN parsed.value
                   ELSE JObj(JStr(<<"Could not parse error response.">>), Undefined)
  IN IF ~CanReadProps(errorBody)
     THEN Throws(Thrown("TypeError", <<"Cannot read properties of null (reading 'error')">>))
     ELSE Throws(Thrown("Error", ServerMessage(status, ToStr(PropError(errorBody)))))

\* the rest of the try block, on an ok response
OkBranch(body) ==
  LET parsed == ResponseJson(body)
  IN IF ~parsed.ok THEN Throws(parsed.error)
     ELSE LET data == parsed.value
          IN IF ~CanReadProps(data)
             THEN Throws(Thrown("TypeError", <<"Cannot read properties of null (reading 'response')">>))
             ELSE IF Truthy(PropResponse(data))
             THEN IF PropResponse(data).t = "string"
                  THEN Returns(Trim(PropResponse(data).s))
                  ELSE Throws(Thrown("TypeError", <<"data.response.trim is not a function">>))
             ELSE Throws(Thrown("Error", EmptyMessage))

\* the try block once fetch has delivered a response
TryBlock(status, body) ==
  IF ~ResponseOk(status) THEN NotOkBranch(status, body) ELSE OkBranch(body)

\* the error classes that are instances of Error
ErrorTypes == {"Error", "TypeError", "SyntaxError"}

\* the message of the Error the catch block throws
CatchBlock(error) ==
  IF error.type = "TypeError" THEN ConnectivityMessage
  ELSE IF error.type \in ErrorTypes THEN error.message
  ELSE UnexpectedMessage

\* how the promise of generateDescriptionFromImage settles after the try block
Settlement(outcome) ==
  IF outcome.returned THEN Resolved(outcome.value)
  ELSE Rejected(CatchBlock(outcome.thrown))

\* fetch rejects: a network error is a TypeError
FetchFailure == Thrown("TypeError", <<"Failed to fetch">>)

----------------------------------------------------------------------------
(* State. *)

VARIABLES
  imageInfo,    \* App: the ImageInfo held, or null
  description,  \* App: the description shown
  isLoading,    \* App: the loading flag
  error,        \* App: the error message, or null
  preview,      \* ImageUploader: the preview URL, or null
  reads,        \* the FileReader reads under way, each with the event it will deliver
  lastRead,     \* the event the last finished read delivered
  calls,        \* the calls of generateDescriptionFromImage that have not settled
  done,         \* the last call of generateDescriptionFromImage that settled
  shownFor,     \* the ImageInfo whose request produced the result shown, or null
  lastEvent     \* the handler that ran last

vars == <<imageInfo, description, isLoading, error, preview, reads, lastRead,
          calls, done, shownFor, lastEvent>>

appVars == <<imageInfo, description, isLoading, error, preview, shownFor>>

NoRead == [t |-> "none"]
ReadError == [t |-> "error"]

NoCall ==
  [settled |-> FALSE, imageInfo |-> JNull, sent |-> <<>>, responded |-> FALSE,
   status |-> 0, body |-> Undefined, result |-> Resolved(<<>>)]

Init ==
  /\ imageInfo = JNull
  /\ description = <<>>
  /\ isLoading = FALSE
  /\ error = JNull
  /\ preview = JNull
  /\ reads = {}
  /\ lastRead = NoRead
  /\ calls = <<>>
  /\ done = NoCall
  /\ shownFor = JNull
  /\ lastEvent = "init"

RemoveAt(s, i) == SubSeq(s, 1, i - 1) \o SubSeq(s, i + 1, Len(s))

----------------------------------------------------------------------------
(* ImageUploader and App handlers. *)

\* App.handleImageUpload
handleImageUpload(info) ==
  /\ imageInfo' = info
  /\ description' = <<>>
  /\ error' = JNull
  /\ shownFor' = JNull

\* handleFileChange up to its await: a file is chosen and its read starts
SelectFile(read) ==
  /\ Cardinality(reads) < MaxReads
  /\ reads' = reads \cup {read}
  /\ lastEvent' = "select"
  /\ UNCHANGED <<appVars, lastRead, calls, done>>

\* the read ends, the promise of fileToImageInfo settles, handleFileChange resumes
ReaderSettles ==
  \E read \in reads :
    LET info == fileToImageInfo(read)
    IN /\ reads' = reads \ {read}
       /\ lastRead' = read
       /\ lastEvent' = "read"
       /\ IF info.ok
          THEN /\ preview' = info.value.previewUrl
               /\ handleImageUpload(info.value)
          ELSE /\ handleImageUpload(JNull)
               /\ preview' = JNull
       /\ UNCHANGED <<isLoading, calls, done>>

ValidationMessage == <<"Please upload an image first.">>
FailurePrefix == <<"Failed to generate description. ">>

\* a call of generateDescriptionFromImage, up to its await of fetch
NewCall(info, caller) ==
  [imageInfo |-> info, caller |-> caller, pc |-> "fetch",
   sent |-> <<Request(info)>>, status |-> 0, body |-> Undefined]

\* the handler without the return of its validation branch
handleGenerateDescriptionNoReturn ==
  /\ lastEvent' = "generate"
  /\ IF imageInfo = JNull
     THEN /\ error' = JStr(ValidationMessage)
          /\ isLoading' = TRUE
          /\ UNCHANGED <<imageInfo, description, preview, shownFor, calls>>
     ELSE /\ isLoading' = TRUE
          /\ error' = JNull
          /\ description' = <<>>
          /\ shownFor' = JNull
          /\ calls' = Append(calls, NewCall(imageInfo, "app"))
          /\ UNCHANGED <<imageInfo, preview>>
  /\ UNCHANGED <<reads, lastRead, done>>

\* App.handleGenerateDescription, up to its await
handleGenerateDescription ==
  /\ lastEvent' = "generate"
  /\ IF imageInfo = JNull
     THEN /\ error' = JStr(ValidationMessage)
          /\ UNCHANGED <<imageInfo, description, isLoading, preview, shownFor, calls>>
     ELSE /\ isLoading' = TRUE
          /\ error' = JNull
          /\ description' = <<>>
          /\ shownFor' = JNull
          /\ calls' = Append(calls, NewCall(imageInfo, "app"))
          /\ UNCHANGED <<imageInfo, preview>>
  /\ UNCHANGED <<reads, lastRead, done>>

\* a button disabled on the missing image alone
ButtonDisabledWithoutLoading == imageInfo = JNull

\* the button's disabled attribute
ButtonDisabled == imageInfo = JNull \/ isLoading

\* a click on the button
ClickGenerate ==
  /\ ~ButtonDisabled
  /\ handleGenerateDescription

\* the handler called with the button bypassed
InvokeGenerate ==
  /\ imageInfo = JNull \/ Len(calls) < MaxCalls
  /\ handleGenerateDescription

\* generateDescriptionFromImage called by another caller than the App, one
\* call at a time (the function keeps no state between calls)
CallService(info) ==
  /\ calls = <<>>
  /\ calls' = Append(calls, NewCall(info, "direct"))
  /\ lastEvent' = "call"
  /\ UNCHANGED <<appVars, reads, lastRead, done>>

\* the handler without its finally block
handlerResumesNoFinally(call, result) ==
  /\ IF result.ok
     THEN /\ description' = result.value
          /\ UNCHANGED error
     ELSE /\ error' = JStr(FailurePrefix \o result.error)
          /\ UNCHANGED description
  /\ shownFor' = call.imageInfo
  /\ UNCHANGED <<imageInfo, preview, isLoading>>

\* handleGenerateDescription after its await: try, catch, finally
handlerResumes(call, result) ==
  /\ IF result.ok
     THEN /\ description' = result.value
          /\ UNCHANGED error
     ELSE /\ error' = JStr(FailurePrefix \o result.error)
          /\ UNCHANGED description
  /\ isLoading' = FALSE
  /\ shownFor' = call.imageInfo
  /\ UNCHANGED <<imageInfo, preview>>

\* the promise of call i settles and its caller resumes
SettleCall(i, responded, result) ==
  /\ calls' = RemoveAt(calls, i)
  /\ done' = [settled |-> TRUE, imageInfo |-> calls[i].imageInfo,
              sent |-> calls[i].sent, responded |-> responded,
              status |-> calls[i].status, body |-> calls[i].body,
              result |-> result]
  /\ lastEvent' = "settle"
  /\ IF calls[i].caller = "app"
     THEN handlerResumes(calls[i], result)
     ELSE UNCHANGED appVars
  /\ UNCHANGED <<reads, lastRead>>

\* fetch rejects: no response was received
FetchRejects(i) ==
  /\ calls[i].pc = "fetch"
  /\ SettleCall(i, FALSE, Settlement(Throws(FetchFailure)))

\* fetch resolves with a response; the call goes on to read its body
FetchResponds(i, status, body) ==
  /\ calls[i].pc = "fetch"
  /\ calls' = [calls EXCEPT ![i].pc = "json", ![i].status = status, ![i].body = body]
  /\ lastEvent' = "response"
  /\ UNCHANGED <<appVars, reads, lastRead, done>>

\* response.json() settles and the try block runs to its end
BodySettles(i) ==
  /\ calls[i].pc = "json"
  /\ SettleCall(i, TRUE, Settlement(TryBlock(calls[i].status, calls[i].body)))

----------------------------------------------------------------------------
(* Inputs. *)

\* the atoms of an arbitrary file-read result
Alphabet == {":", ";", ",", "\n", "data", "AAAA"}
MimeAtoms == {"image", "/", "png"}
DataAtoms == {"AAAA", "QUJD", "="}

\* data:<mime>;base64,<data>
DataUrl(mime, data) == <<"data", ":">> \o mime \o <<";", "base64", ",">> \o data

MimeTypes == SeqsUpTo(MimeAtoms, MaxMime) \ {<<>>}
Payloads == SeqsUpTo(DataAtoms, MaxData)
WellFormedUrls == {DataUrl(m, d) : m \in MimeTypes, d \in Payloads}

\* what a read may deliver to fileToImageInfo
CodecInputs ==
  {JStr(s) : s \in SeqsUpTo(Alphabet, MaxLen) \cup WellFormedUrls}
    \cup {JNull, ReadError}

\* what readAsDataURL delivers for the files of a session: two images, an
\* empty file, a file that cannot be read
FileReads ==
  {JStr(DataUrl(<<"image", "/", "png">>, <<"AAAA">>)),
   JStr(DataUrl(<<"image", "/", "jpeg">>, <<"QUJD">>)),
   JStr(<<"data", ":">>),
   ReadError}

\* the ImageInfo records of the two images
Images ==
  {fileToImageInfo(r).value : r \in {x \in FileReads : fileToImageInfo(x).ok}}

Statuses == {200, 404, 500}
TextAtoms == {" ", "cat"}
Texts == SeqsUpTo(TextAtoms, MaxText)
ErrorFields == {Undefined, JStr(<<"model not found">>)}
ResponseFields == {Undefined, JNull, JNum(0), JNum(5)} \cup {JStr(x) : x \in Texts}

\* the bodies a server may send: not JSON, JSON that is no object, objects
Bodies ==
  {NotJson, JNull, JNum(5), JStr(<<"cat">>)}
    \cup {JObj(e, r) : e \in ErrorFields, r \in ResponseFields}

\* the responses the App's session sees
AppResponses ==
  {<<200, JObj(Undefined, JStr(<<" ", "cat", " ">>))>>,
   <<200, JObj(Undefined, JStr(<<>>))>>,
   <<500, JObj(JStr(<<"model not found">>), Undefined)>>}

----------------------------------------------------------------------------
(* Specifications. *)

\* the App as the user drives it
Next ==
  \/ \E read \in FileReads : SelectFile(read)
  \/ ReaderSettles
  \/ ClickGenerate
  \/ \E i \in 1..Len(calls) : FetchRejects(i)
  \/ \E i \in 1..Len(calls) : \E r \in AppResponses : FetchResponds(i, r[1], r[2])
  \/ \E i \in 1..Len(calls) : BodySettles(i)

Spec == Init /\ [][Next]_vars

\* the App with handleGenerateDescription called whatever the button's state
NextDirect ==
  \/ \E read \in FileReads : SelectFile(read)
  \/ ReaderSettles
  \/ InvokeGenerate
  \/ \E i \in 1..Len(calls) : FetchRejects(i)
  \/ \E i \in 1..Len(calls) : \E r \in AppResponses : FetchResponds(i, r[1], r[2])
  \/ \E i \in 1..Len(calls) : BodySettles(i)

SpecDirect == Init /\ [][NextDirect]_vars

\* generateDescriptionFromImage alone, over every record, status and body
NextClient ==
  \/ \E info \in Images : CallService(info)
  \/ \E i \in 1..Len(calls) : FetchRejects(i)
  \/ \E i \in 1..Len(calls) : \E s \in Statuses, b \in Bodies : FetchResponds(i, s, b)
  \/ \E i \in 1..Len(calls) : BodySettles(i)

SpecClient == Init /\ [][NextClient]_vars

\* fileToImageInfo alone: one read under way, delivering any of CodecInputs
InitCodec ==
  /\ imageInfo = JNull
  /\ description = <<>>
  /\ isLoading = FALSE
  /\ error = JNull
  /\ preview = JNull
  /\ reads \in {{r} : r \in CodecInputs}
  /\ lastRead = NoRead
  /\ calls = <<>>
  /\ done = NoCall
  /\ shownFor = JNull
  /\ lastEvent = "select"

NextCodec == ReaderSettles

SpecCodec == InitCodec /\ [][NextCodec]_vars

----------------------------------------------------------------------------
(* Vocabulary of the properties. *)

\* sub occurs in msg as a run of consecutive atoms
Contains(msg, sub) ==
  \E i \in 1..(Len(msg) - Len(sub) + 1) : SubSeq(msg, i, i + Len(sub) - 1) = sub

\* the error classes, told by the message the rejected promise carries
IsServerError(result) ==
  /\ ~result.ok
  /\ result.error # <<>>
  /\ result.error[1] = "Ollama API request failed with status "
IsConnectivityError(result) == ~result.ok /\ result.error = ConnectivityMessage
IsEmptyResponseError(result) == ~result.ok /\ result.error = EmptyMessage

\* r is s without its leading and trailing white space, and nothing else changed
IsTrimOf(r, s) ==
  \E i \in 0..Len(s) : \E j \in 0..(Len(s) - i) :
    /\ r = SubSeq(s, i + 1, Len(s) - j)
    /\ \A k \in 1..i : s[k] \in {" ", "\t", "\n", "\r"}
    /\ \A k \in (Len(s) - j + 1)..Len(s) : s[k] \in {" ", "\t", "\n", "\r"}
    /\ r # <<>> => r[1] \notin {" ", "\t", "\n", "\r"}
                   /\ r[Len(r)] \notin {" ", "\t", "\n", "\r"}

\* the one request a call must have sent for the record it was given
IsTheRequestFor(sent, info) ==
  /\ Len(sent) = 1
  /\ sent[1].url = "http://localhost:11434/api/generate"
  /\ sent[1].method = "POST"
  /\ sent[1].body.model = "llava"
  /\ sent[1].body.stream = FALSE
  /\ Len(sent[1].body.images) = 1
  /\ sent[1].body.images[1] = info.base64Data

\* the response field of a parsed body; a body that is no object has none
ResponseFieldOf(body) == IF body.t = "object" THEN body.response ELSE [t |-> "undefined"]

\* a call that received a response with a non-success status has settled
SettledNotOk == done.settled /\ done.responded /\ ~(done.status \in 200..299)

\* a call that received a response with a success status has settled
SettledOk == done.settled /\ done.responded /\ done.status \in 200..299

----------------------------------------------------------------------------
(* Properties. *)

\* C1: when handleGenerateDescription runs while no ImageInfo is held, the
\* error becomes 'Please upload an image first.', no call of
\* generateDescriptionFromImage starts (no request is sent) and the loading
\* flag is left as it was.
C1_ValidationWithoutRequest ==
  [][(lastEvent' = "generate" /\ imageInfo = JNull)
       => /\ error' = JStr(<<"Please upload an image first.">>)
          /\ calls' = calls
          /\ done' = done
          /\ isLoading' = isLoading
          /\ imageInfo' = JNull]_vars

C1_Witness ==
  /\ lastEvent = "generate"
  /\ imageInfo = JNull
  /\ error = JStr(<<"Please upload an image first.">>)
  /\ lastRead # NoRead

\* C2: every call of generateDescriptionFromImage, outstanding or settled in
\* whatever way, has sent exactly one request: a POST to the fixed endpoint
\* with model 'llava', stream false and images holding the record's payload
\* and nothing else.
C2_ExactlyOneRequest ==
  /\ \A i \in 1..Len(calls) : IsTheRequestFor(calls[i].sent, calls[i].imageInfo)
  /\ done.settled => IsTheRequestFor(done.sent, done.imageInfo)

C2_Witness ==
  /\ SettledNotOk
  /\ done.body = NotJson
  /\ Len(done.sent) = 1

\* C3: a response with a non-success status, whatever its body, makes the call
\* fail with a ServerError whose message holds the status code, the server's
\* error text when the body is an object carrying one, and the placeholder
\* when the body is not JSON.
C3_ServerErrorForEveryBody ==
  SettledNotOk =>
    /\ IsServerError(done.result)
    /\ Contains(done.result.error, Digits(done.status))
    /\ (done.body.t = "object" /\ done.body.error.t = "string")
         => Contains(done.result.error, done.body.error.s)
    /\ done.body.t = "notjson"
         => Contains(done.result.error, <<"Could not parse error response.">>)

\* C4: a call fails with the ConnectivityError exactly when fetch rejected,
\* that is, when no response was received.
C4_ConnectivityIffNoResponse ==
  done.settled => (IsConnectivityError(done.result) <=> ~done.responded)

C6_OneOutstanding ==
  /\ Len(calls) <= 1
  /\ calls # <<>> => isLoading /\ (imageInfo = JNull \/ isLoading)

C6_Witness ==
  /\ Len(calls) = 1
  /\ lastEvent = "read"
  /\ imageInfo # calls[1].imageInfo

\* C7: a request is issued only by the handler, from a state that is not
\* loading and holds an ImageInfo, and it sets loading and clears error and
\* description; the loading flag is raised by nothing else; when the request
\* settles loading is false and either the description is the returned text
\* and the error null, or the error is 'Failed to generate description. '
\* followed by the message and the description empty.
C7_StateMachine ==
  [][/\ Len(calls') > Len(calls)
          => /\ lastEvent' = "generate"
             /\ ~isLoading /\ imageInfo \in Images
             /\ isLoading' /\ error' = JNull /\ description' = <<>>
     /\ (~isLoading /\ isLoading') => Len(calls') = Len(calls) + 1
     /\ Len(calls') < Len(calls)
          => /\ done'.settled /\ calls' = <<>> /\ ~isLoading'
             /\ IF done'.result.ok
                THEN description' = done'.result.value /\ error' = JNull
                ELSE /\ error' = JStr(<<"Failed to generate description. ">>
                                        \o done'.result.error)
                     /\ description' = <<>>]_vars

C7_Witness ==
  /\ lastEvent = "settle"
  /\ ~isLoading
  /\ ~done.result.ok
  /\ error = JStr(<<"Failed to generate description. ">> \o done.result.error)
  /\ imageInfo # done.imageInfo

\* C8: for every string a read delivers, fileToImageInfo either yields a
\* record whose payload and content type are both defined or yields none, and
\* it yields none when the header has no ':...;' envelope.
C8_NoPartialRecord ==
  lastRead.t = "string" =>
    /\ imageInfo # JNull
         => imageInfo.base64Data.t = "string" /\ imageInfo.mimeType.t = "string"
    /\ ~(\E i \in 1..Len(lastRead.s) : \E j \in (i + 1)..Len(lastRead.s) :
           lastRead.s[i] = ":" /\ lastRead.s[j] = ";")
         => imageInfo = JNull

\* C9: for every data URL data:<mime>;base64,<data> the decode succeeds with
\* the content type <mime> and the payload <data>.
C9_RoundTrip ==
  (lastRead.t = "string" /\ lastRead.s \in WellFormedUrls)
    => \A m \in MimeTypes, d \in Payloads :
         lastRead.s = DataUrl(m, d)
           => /\ imageInfo # JNull
              /\ imageInfo.mimeType = JStr(m)
              /\ imageInfo.base64Data = JStr(d)

C9_Witness ==
  /\ lastRead = JStr(DataUrl(<<"image", "/", "png">>, <<"QUJD", "=">>))
  /\ imageInfo # JNull

\* C10: a description or a 'Failed to generate description' error that the App
\* holds comes from a request made for the ImageInfo it holds.
C10_ResultOfHeldImage ==
  (\/ description # <<>>
   \/ (error # JNull /\ error.s[1] = "Failed to generate description. "))
    => shownFor = imageInfo

====
